---- MODULE Spec2Model ----
(***************************************************************************)
(* Slice nodes of nuitka/nodes/SliceNodes.py: construction of the slice    *)
(* statement / expression nodes and their compute (rewrite) steps.         *)
(*                                                                         *)
(* Child expressions are drawn from a small universe of expression nodes.  *)
(* What the trace collection, the exception queries of child expressions,  *)
(* the statement builders and the subject hooks answer is not part of      *)
(* SliceNodes.py; those definitions are tables / contracts.                *)
(***************************************************************************)
EXTENDS Integers, Sequences, FiniteSets, TLC

\* ------------------------------------------------------------------ bounds
\* How many times the driver may invoke the compute step of one node.
MaxCalls == 2

\* ------------------------------------------------------- expression universe
\* Python's None used for "no child" (lower=None, upper=None, step=None).
Absent == "absent"

\* Expression nodes that may be supplied as children:
\*   none     the literal None constant (ExpressionConstantNoneRef)
\*   three    the constant 3
\*   sum      the operation 1+2, which the trace collection folds to three
\*   var      a variable reference, may raise NameError depending on input
\*   call     f(), not yet known to raise; the trace collection proves it
\*            raises and returns raise_f
\*   raise_f  f() known to always raise ValueError
Exprs == {"none", "three", "sum", "var", "call", "raise_f"}

OptExprs == Exprs \cup {Absent}

Categories == {"BaseException", "NameError", "ValueError", "TypeError"}

\* The exception categories an expression node reports it may raise.
MayRaiseCats(e) ==
    CASE e = "none" -> {}
      [] e = "three" -> {}
      [] e = "sum" -> {"TypeError"}
      [] e = "var" -> {"NameError"}
      [] e = "call" -> {"NameError", "ValueError", "TypeError"}
      [] e = "raise_f" -> {"ValueError"}

\* child.mayRaiseException(exception_type); BaseException covers everything.
mayRaiseException(e, exception_type) ==
    IF exception_type = "BaseException"
    THEN MayRaiseCats(e) # {}
    ELSE exception_type \in MayRaiseCats(e)

\* child.willRaiseException(exception_type): the node is known to raise.
willRaiseException(e, exception_type) ==
    e = "raise_f" /\ exception_type \in {"BaseException", "ValueError"}

\* child.isCompileTimeConstant()
isCompileTimeConstant(e) == e \in {"none", "three"}

\* What computing an expression through the trace collection returns.
Refined(e) ==
    CASE e = "sum" -> "three"
      [] e = "call" -> "raise_f"
      [] OTHER -> e

\* trace_collection.onExpression(expression, allow_none): returns the current
\* best form of the child; None stays None when allow_none.  The node's slot
\* is left as it is: nodes are replaced by the driver, not mutated in place.
onExpression(expression, allow_none) ==
    IF expression = Absent /\ allow_none THEN Absent ELSE Refined(expression)

\* convertNoneConstantToNone: the literal None constant becomes "no child".
convertNoneConstantToNone(value) ==
    IF value = Absent THEN Absent
    ELSE IF value = "none" THEN Absent
    ELSE value

\* ---------------------------------------------------------------- node kinds
AssignKind == "STATEMENT_ASSIGNMENT_SLICE"
DelKind == "STATEMENT_DEL_SLICE"
LookupKind == "EXPRESSION_SLICE_LOOKUP"
Slice3Kind == "EXPRESSION_BUILTIN_SLICE3"
Slice2Kind == "EXPRESSION_BUILTIN_SLICE2"

\* named_children of each kind, in the order the class lists them.
named_children(kind) ==
    CASE kind = AssignKind -> <<"source", "expression", "lower", "upper">>
      [] kind = DelKind -> <<"expression", "lower", "upper">>
      [] kind = LookupKind -> <<"expression", "lower", "upper">>
      [] kind = Slice3Kind -> <<"start", "stop", "step">>
      [] kind = Slice2Kind -> <<"start", "stop">>

SeqRange(s) == {s[i] : i \in 1..Len(s)}

\* The checkers attribute of a kind: the children that are converted by
\* convertNoneConstantToNone when the node is built.  Only the slice lookup
\* declares checkers.
checkers_lookup_upper_only(kind) ==
    IF kind = LookupKind THEN {"upper"} ELSE {}

checkers(kind) ==
    IF kind = LookupKind THEN {"upper", "lower"} ELSE {}

\* ChildrenHavingBase.__init__: store the values, applying a checker where the
\* kind declares one for the child name.
ChildrenHaving(kind, values) ==
    [kind |-> kind,
     child |-> [name \in SeqRange(named_children(kind)) |->
                   IF name \in checkers(kind)
                   THEN convertNoneConstantToNone(values[name])
                   ELSE values[name]]]

NoNode == [kind |-> "none", child |-> <<>>]

\* ------------------------------------------------------------ rewrite outcome
\* (replacement, change tag, description).  form "self" is the node itself,
\* "stmts" expression-only statements, "hook" what a subject hook built,
\* "const" a compile time constant.  tag "fault" stands for an exception
\* escaping the compute step itself.
Unchanged == [tag |-> "unchanged", form |-> "self", exprs |-> <<>>, msg |-> ""]

Fault == [tag |-> "fault", form |-> "none", exprs |-> <<>>, msg |-> ""]

\* makeStatementExpressionOnlyReplacementNode(expression, node)
makeStatementExpressionOnlyReplacementNode(expression) ==
    [form |-> "stmts", exprs |-> <<expression>>]

\* makeStatementOnlyNodesFromExpressions(expressions): one expression-only
\* statement per entry; an entry that is no node cannot be wrapped, building
\* a statement from it fails.
makeStatementOnlyNodesFromExpressions(expressions) ==
    IF \E i \in 1..Len(expressions) : expressions[i] = Absent
    THEN [form |-> "none", exprs |-> <<>>]
    ELSE [form |-> "stmts", exprs |-> expressions]

\* The (result, "new_raise", message) return; when building result failed the
\* exception leaves the compute step instead.
NewRaise(result, msg) ==
    IF result.form = "none" THEN Fault
    ELSE [tag |-> "new_raise", form |-> result.form, exprs |-> result.exprs,
          msg |-> msg]

\* --------------------------------------------------------------- subject hooks
\* Subjects whose shape overrides the slice hooks; every other subject has the
\* default, which returns the node unchanged.
HookSubjects == {"three"}

NoHook == [called |-> FALSE, op |-> "none", subject |-> Absent, args |-> <<>>]

HookCall(op, subject, args) ==
    [called |-> TRUE, op |-> op, subject |-> subject, args |-> args]

\* The outcome of subject.computeExpressionSetSlice / DelSlice / Slice called
\* with args.
HookOutcome(op, subject, args) ==
    IF subject \in HookSubjects
    THEN [tag |-> "new_statements", form |-> "hook",
          exprs |-> <<subject>> \o args, msg |-> op]
    ELSE Unchanged

\* What one compute step did: the onExpression calls in order (child name,
\* argument), the expressions handed to makeStatementOnlyNodesFromExpressions,
\* the hook call, and the returned outcome.
Step(calls, handed, hook, outcome) ==
    [calls |-> calls, handed |-> handed, hook |-> hook, outcome |-> outcome]

\* Prefix a step with an earlier onExpression call.
After(name, arg, step) ==
    [step EXCEPT !.calls = <<<<name, arg>>>> \o @]

\* ------------------------------------------ StatementAssignmentSlice.compute
\* upper = onExpression(self.getUpper(), allow_none=True) ... to the end.
AssignUpperStage(n, source, lookup_source, lower) ==
    LET upper == onExpression(n.child["upper"], TRUE) IN
    After("upper", n.child["upper"],
      IF upper # Absent /\ willRaiseException(upper, "BaseException")
      THEN LET expressions == <<source, lookup_source, lower, upper>> IN
           Step(<<>>, expressions, NoHook,
                NewRaise(makeStatementOnlyNodesFromExpressions(expressions),
                         "upper slice boundary value"))
      ELSE LET args == <<source, lower, upper>> IN
           Step(<<>>, <<>>, HookCall("SetSlice", lookup_source, args),
                HookOutcome("SetSlice", lookup_source, args)))

\* The lower bound stage testing mayRaiseException where the code tests
\* willRaiseException.
AssignLowerStage_may_raise(n, source, lookup_source) ==
    LET lower == onExpression(n.child["lower"], TRUE) IN
    After("lower", n.child["lower"],
      IF lower # Absent /\ mayRaiseException(lower, "BaseException")
      THEN LET expressions == <<source, lookup_source, lower>> IN
           Step(<<>>, expressions, NoHook,
                NewRaise(makeStatementOnlyNodesFromExpressions(expressions),
                         "lower slice boundary value"))
      ELSE AssignUpperStage(n, source, lookup_source, lower))

\* lower = onExpression(self.getLower(), allow_none=True) and its raise check.
AssignLowerStage(n, source, lookup_source) ==
    LET lower == onExpression(n.child["lower"], TRUE) IN
    After("lower", n.child["lower"],
      IF lower # Absent /\ willRaiseException(lower, "BaseException")
      THEN LET expressions == <<source, lookup_source, lower>> IN
           Step(<<>>, expressions, NoHook,
                NewRaise(makeStatementOnlyNodesFromExpressions(expressions),
                         "lower slice boundary value"))
      ELSE AssignUpperStage(n, source, lookup_source, lower))

\* The subject stage handing the subject before the assigned value.
AssignSubjectStage_swapped(n, source) ==
    LET lookup_source == onExpression(n.child["expression"], FALSE) IN
    After("expression", n.child["expression"],
      IF willRaiseException(lookup_source, "BaseException")
      THEN LET expressions == <<lookup_source, source>> IN
           Step(<<>>, expressions, NoHook,
                NewRaise(makeStatementOnlyNodesFromExpressions(expressions),
                         "sliced value"))
      ELSE AssignLowerStage(n, source, lookup_source))

\* lookup_source = onExpression(self.subnode_expression) and its raise check.
AssignSubjectStage(n, source) ==
    LET lookup_source == onExpression(n.child["expression"], FALSE) IN
    After("expression", n.child["expression"],
      IF willRaiseException(lookup_source, "BaseException")
      THEN LET expressions == <<source, lookup_source>> IN
           Step(<<>>, expressions, NoHook,
                NewRaise(makeStatementOnlyNodesFromExpressions(expressions),
                         "sliced value"))
      ELSE AssignLowerStage(n, source, lookup_source))

\* The compute step going on to the subject although the assigned value
\* certainly raises.
StatementAssignmentSlice_computeStatement_no_return(n) ==
    LET source == onExpression(n.child["source"], FALSE) IN
    After("source", n.child["source"], AssignSubjectStage(n, source))

\* StatementAssignmentSlice.computeStatement
StatementAssignmentSlice_computeStatement(n) ==
    LET source == onExpression(n.child["source"], FALSE) IN
    After("source", n.child["source"],
      IF willRaiseException(source, "BaseException")
      THEN Step(<<>>, <<>>, NoHook,
                NewRaise(makeStatementExpressionOnlyReplacementNode(source),
                         "assigned value"))
      ELSE AssignSubjectStage(n, source))

\* ------------------------------------------------- StatementDelSlice.compute
\* trace_collection.onExpression(self.getUpper(), allow_none=True), then
\* upper = self.getUpper(): the child slot is read again, the value the trace
\* collection returned is not used.
DelUpperStage(n, lookup_source, lower) ==
    LET upper == n.child["upper"] IN
    After("upper", n.child["upper"],
      IF upper # Absent /\ willRaiseException(upper, "BaseException")
      THEN LET expressions == <<lookup_source, lower, upper>> IN
           Step(<<>>, expressions, NoHook,
                NewRaise(makeStatementOnlyNodesFromExpressions(expressions),
                         "upper slice boundary value"))
      ELSE LET args == <<lower, upper>> IN
           Step(<<>>, <<>>, HookCall("DelSlice", lookup_source, args),
                HookOutcome("DelSlice", lookup_source, args)))

\* lower = onExpression(self.getLower(), allow_none=True) and its raise check.
DelLowerStage(n, lookup_source) ==
    LET lower == onExpression(n.child["lower"], TRUE) IN
    After("lower", n.child["lower"],
      IF lower # Absent /\ willRaiseException(lower, "BaseException")
      THEN LET expressions == <<lookup_source, lower>> IN
           Step(<<>>, expressions, NoHook,
                NewRaise(makeStatementOnlyNodesFromExpressions(expressions),
                         "lower slice boundary value"))
      ELSE DelUpperStage(n, lookup_source, lower))

\* StatementDelSlice.computeStatement
StatementDelSlice_computeStatement(n) ==
    LET lookup_source == onExpression(n.child["expression"], FALSE) IN
    After("expression", n.child["expression"],
      IF willRaiseException(lookup_source, "BaseException")
      THEN Step(<<>>, <<>>, NoHook,
                NewRaise(makeStatementExpressionOnlyReplacementNode(lookup_source),
                         "sliced value"))
      ELSE DelLowerStage(n, lookup_source))

\* --------------------------------------------- ExpressionSliceLookup.compute
\* ExpressionSliceLookup.computeExpression: no onExpression call, the subject
\* as stored decides.
ExpressionSliceLookup_computeExpression(n) ==
    LET lookup_source == n.child["expression"]
        args == <<n.child["lower"], n.child["upper"]>>
    IN Step(<<>>, <<>>, HookCall("Slice", lookup_source, args),
            HookOutcome("Slice", lookup_source, args))

\* ExpressionSliceLookup.isKnownToBeIterable(count)
ExpressionSliceLookup_isKnownToBeIterable == "unknown"

\* ------------------------------------------------------ builtin slice nodes
\* makeExpressionBuiltinSlice(start, stop, step, source_ref), with a step that
\* is the None constant taken for no step.
makeExpressionBuiltinSlice_none_step(start, stop, step) ==
    LET start1 == IF start = Absent THEN "none" ELSE start
        stop1 == IF stop = Absent THEN "none" ELSE stop
    IN IF step = Absent \/ step = "none"
       THEN ChildrenHaving(Slice2Kind,
                [name \in {"start", "stop"} |->
                    IF name = "start" THEN start1 ELSE stop1])
       ELSE ChildrenHaving(Slice3Kind,
                [name \in {"start", "stop", "step"} |->
                    CASE name = "start" -> start1
                      [] name = "stop" -> stop1
                      [] name = "step" -> step])

\* makeExpressionBuiltinSlice(start, stop, step, source_ref)
makeExpressionBuiltinSlice(start, stop, step) ==
    LET start1 == IF start = Absent THEN "none" ELSE start
        stop1 == IF stop = Absent THEN "none" ELSE stop
    IN IF step = Absent
       THEN ChildrenHaving(Slice2Kind,
                [name \in {"start", "stop"} |->
                    IF name = "start" THEN start1 ELSE stop1])
       ELSE ChildrenHaving(Slice3Kind,
                [name \in {"start", "stop", "step"} |->
                    CASE name = "start" -> start1
                      [] name = "stop" -> stop1
                      [] name = "step" -> step])

\* ExpressionBuiltinSlice3.mayRaiseException with the step left out.
ExpressionBuiltinSlice3_mayRaiseException_no_step(n, exception_type) ==
    \/ mayRaiseException(n.child["start"], exception_type)
    \/ mayRaiseException(n.child["stop"], exception_type)

\* ExpressionBuiltinSlice3.mayRaiseException(exception_type)
ExpressionBuiltinSlice3_mayRaiseException(n, exception_type) ==
    \/ mayRaiseException(n.child["start"], exception_type)
    \/ mayRaiseException(n.child["stop"], exception_type)
    \/ mayRaiseException(n.child["step"], exception_type)

\* ExpressionBuiltinSlice2.mayRaiseException(exception_type)
ExpressionBuiltinSlice2_mayRaiseException(n, exception_type) ==
    \/ mayRaiseException(n.child["start"], exception_type)
    \/ mayRaiseException(n.child["stop"], exception_type)

\* self.mayRaiseException as the node's class defines it.
BuiltinSlice_mayRaiseException(n, exception_type) ==
    IF n.kind = Slice3Kind
    THEN ExpressionBuiltinSlice3_mayRaiseException(n, exception_type)
    ELSE ExpressionBuiltinSlice2_mayRaiseException(n, exception_type)

\* ExpressionBuiltinSliceMixin.mayHaveSideEffects
ExpressionBuiltinSliceMixin_mayHaveSideEffects(n) ==
    BuiltinSlice_mayRaiseException(n, "BaseException")

\* ExpressionBuiltinSliceMixin.getTypeShape / isKnownToBeIterable
ExpressionBuiltinSliceMixin_getTypeShape == "tshape_slice"

ExpressionBuiltinSliceMixin_isKnownToBeIterable == FALSE

\* computeBuiltinSpec(trace_collection, given_values): every argument is
\* computed through the trace collection; all constant arguments fold to a
\* constant slice; exactly one certainly raising argument leaves the arguments
\* up to it as statements; anything else leaves the node unchanged.
computeBuiltinSpec(names, given_values) ==
    LET refined == [i \in 1..Len(given_values) |->
                       onExpression(given_values[i], FALSE)]
        calls == [i \in 1..Len(given_values) |-> <<names[i], given_values[i]>>]
        raising == {i \in 1..Len(refined) :
                       willRaiseException(refined[i], "BaseException")}
    IN IF \A i \in 1..Len(refined) : isCompileTimeConstant(refined[i])
       THEN Step(calls, <<>>, NoHook,
                 [tag |-> "new_constant", form |-> "const", exprs |-> refined,
                  msg |-> "slice"])
       ELSE IF Cardinality(raising) = 1
       THEN LET k == CHOOSE i \in raising : TRUE
                expressions == SubSeq(refined, 1, k)
            IN Step(calls, expressions, NoHook,
                    NewRaise(makeStatementOnlyNodesFromExpressions(expressions),
                             "slice argument"))
       ELSE Step(calls, <<>>, NoHook, Unchanged)

\* ExpressionBuiltinSlice3.computeExpression
ExpressionBuiltinSlice3_computeExpression(n) ==
    computeBuiltinSpec(<<"start", "stop", "step">>,
        <<n.child["start"], n.child["stop"], n.child["step"]>>)

\* ExpressionBuiltinSlice2.computeExpression
ExpressionBuiltinSlice2_computeExpression(n) ==
    computeBuiltinSpec(<<"start", "stop">>,
        <<n.child["start"], n.child["stop"]>>)

\* ---------------------------------------------------------------------- state
VARIABLES
    node,       \* the slice node under optimization, NoNode before it is built
    supplied,   \* the arguments its constructor / factory was called with
    phase,      \* "init", "live" (in the tree) or "replaced" (discarded)
    outcomes,   \* the outcomes of the compute steps invoked on it, in order
    tcCalls,    \* the onExpression calls of the last compute step
    handed,     \* expressions the last step gave the statements builder
    hookCall,   \* the subject hook call of the last compute step
    query       \* the last mayRaiseException / mayHaveSideEffects answer

vars == <<node, supplied, phase, outcomes, tcCalls, handed, hookCall, query>>

NoQuery == [asked |-> "none", category |-> "none", answer |-> FALSE]

Init ==
    /\ node = NoNode
    /\ supplied = <<>>
    /\ phase = "init"
    /\ outcomes = <<>>
    /\ tcCalls = <<>>
    /\ handed = <<>>
    /\ hookCall = NoHook
    /\ query = NoQuery

Built(n, values) ==
    /\ phase = "init"
    /\ node' = n
    /\ supplied' = values
    /\ phase' = "live"
    /\ UNCHANGED <<outcomes, tcCalls, handed, hookCall, query>>

\* StatementAssignmentSlice(expression, lower, upper, source, source_ref)
NewStatementAssignmentSlice ==
    \E expression \in Exprs, lower \in OptExprs, upper \in OptExprs,
       source \in Exprs :
        LET values == [name \in {"source", "expression", "lower", "upper"} |->
                          CASE name = "source" -> source
                            [] name = "expression" -> expression
                            [] name = "lower" -> lower
                            [] name = "upper" -> upper]
        IN Built(ChildrenHaving(AssignKind, values), values)

\* StatementDelSlice(expression, lower, upper, source_ref)
NewStatementDelSlice ==
    \E expression \in Exprs, lower \in OptExprs, upper \in OptExprs :
        LET values == [name \in {"expression", "lower", "upper"} |->
                          CASE name = "expression" -> expression
                            [] name = "lower" -> lower
                            [] name = "upper" -> upper]
        IN Built(ChildrenHaving(DelKind, values), values)

\* ExpressionSliceLookup(expression, lower, upper, source_ref)
NewExpressionSliceLookup ==
    \E expression \in Exprs, lower \in OptExprs, upper \in OptExprs :
        LET values == [name \in {"expression", "lower", "upper"} |->
                          CASE name = "expression" -> expression
                            [] name = "lower" -> lower
                            [] name = "upper" -> upper]
        IN Built(ChildrenHaving(LookupKind, values), values)

\* makeExpressionBuiltinSlice(start, stop, step, source_ref)
MakeBuiltinSlice ==
    \E start \in OptExprs, stop \in OptExprs, step \in OptExprs :
        LET values == [name \in {"start", "stop", "step"} |->
                          CASE name = "start" -> start
                            [] name = "stop" -> stop
                            [] name = "step" -> step]
        IN Built(makeExpressionBuiltinSlice(start, stop, step), values)

\* The driver invokes the compute step of the node; it runs to completion.
Computed(kind, step) ==
    /\ phase = "live"
    /\ node.kind = kind
    /\ Len(outcomes) < MaxCalls
    /\ outcomes' = Append(outcomes, step.outcome)
    /\ tcCalls' = step.calls
    /\ handed' = step.handed
    /\ hookCall' = step.hook
    /\ UNCHANGED <<node, supplied, phase, query>>

ComputeAssignmentSlice ==
    Computed(AssignKind, StatementAssignmentSlice_computeStatement(node))

ComputeDelSlice ==
    Computed(DelKind, StatementDelSlice_computeStatement(node))

ComputeSliceLookup ==
    Computed(LookupKind, ExpressionSliceLookup_computeExpression(node))

ComputeBuiltinSlice3 ==
    Computed(Slice3Kind, ExpressionBuiltinSlice3_computeExpression(node))

ComputeBuiltinSlice2 ==
    Computed(Slice2Kind, ExpressionBuiltinSlice2_computeExpression(node))

\* node.mayRaiseException(exception_type) asked of a builtin slice node.
AskMayRaiseException ==
    /\ phase = "live"
    /\ node.kind \in {Slice3Kind, Slice2Kind}
    /\ \E exception_type \in Categories :
          query' = [asked |-> "mayRaiseException", category |-> exception_type,
                    answer |-> BuiltinSlice_mayRaiseException(node, exception_type)]
    /\ UNCHANGED <<node, supplied, phase, outcomes, tcCalls, handed, hookCall>>

\* node.mayHaveSideEffects() asked of a builtin slice node.
AskMayHaveSideEffects ==
    /\ phase = "live"
    /\ node.kind \in {Slice3Kind, Slice2Kind}
    /\ query' = [asked |-> "mayHaveSideEffects", category |-> "none",
                 answer |-> ExpressionBuiltinSliceMixin_mayHaveSideEffects(node)]
    /\ UNCHANGED <<node, supplied, phase, outcomes, tcCalls, handed, hookCall>>

\* The driver substitutes the replacement of a compute step that changed the
\* node; the node is discarded and not processed again.
DriverSubstitute ==
    /\ phase = "live"
    /\ Len(outcomes) > 0
    /\ outcomes[Len(outcomes)].tag \notin {"unchanged", "fault"}
    /\ phase' = "replaced"
    /\ UNCHANGED <<node, supplied, outcomes, tcCalls, handed, hookCall, query>>

Next ==
    \/ NewStatementAssignmentSlice
    \/ NewStatementDelSlice
    \/ NewExpressionSliceLookup
    \/ MakeBuiltinSlice
    \/ ComputeAssignmentSlice
    \/ ComputeDelSlice
    \/ ComputeSliceLookup
    \/ ComputeBuiltinSlice3
    \/ ComputeBuiltinSlice2
    \/ AskMayRaiseException
    \/ AskMayHaveSideEffects
    \/ DriverSubstitute

Spec == Init /\ [][Next]_vars

\* ------------------------------------------------- vocabulary of the claims
LastOutcome == outcomes[Len(outcomes)]

\* The compute step of a node of this kind has been invoked.
Ran(kind) == node.kind = kind /\ Len(outcomes) > 0

IsPresent(e) == e # Absent

\* The form the trace collection returns for the child at position i of the
\* evaluation order of node n.
RefinedAt(n, i) == onExpression(n.child[named_children(n.kind)[i]], TRUE)

\* Positions whose refined child certainly raises, and the first of them
\* (0 when there is none).
RaisingPositions(n) ==
    {i \in 1..Len(named_children(n.kind)) :
        /\ RefinedAt(n, i) # Absent
        /\ willRaiseException(RefinedAt(n, i), "BaseException")}

FirstRaising(n) ==
    IF RaisingPositions(n) = {} THEN 0
    ELSE CHOOSE i \in RaisingPositions(n) : \A j \in RaisingPositions(n) : i <= j

\* The refined children at positions 1..k that are present, in order.
RefinedUpTo(n, k) ==
    SelectSeq([i \in 1..k |-> RefinedAt(n, i)], IsPresent)

\* C1: when position k is the first child of a slice assignment (value,
\* subject, lower, upper) whose refined form certainly raises, the outcome is
\* tagged new_raise and its replacement is the statement sequence of exactly
\* the refined children at positions 1..k, in order.
C1_AssignmentRaiseKeepsChildrenUpToK ==
    (Ran(AssignKind) /\ FirstRaising(node) > 0) =>
        /\ LastOutcome.tag = "new_raise"
        /\ LastOutcome.form = "stmts"
        /\ LastOutcome.exprs = RefinedUpTo(node, FirstRaising(node))

\* C2: for a slice deletion (subject, lower, upper): a certainly raising
\* subject leaves only the refined subject; when only the upper bound
\* certainly raises the replacement is the refined subject, the refined lower
\* bound, then the upper bound in the form the trace collection returned; in
\* both cases the outcome is tagged new_raise.
C2_DeletionRaiseReplacement ==
    Ran(DelKind) =>
        /\ FirstRaising(node) = 1 =>
              /\ LastOutcome.tag = "new_raise"
              /\ LastOutcome.exprs = <<RefinedAt(node, 1)>>
        /\ FirstRaising(node) = 3 =>
              /\ LastOutcome.tag = "new_raise"
              /\ LastOutcome.exprs = RefinedUpTo(node, 3)

\* What an expression denotes in the program; the trace collection returns
\* forms that denote the same.
Denotes(e) ==
    CASE e \in {"three", "sum"} -> "3"
      [] e \in {"call", "raise_f"} -> "f()"
      [] OTHER -> e

\* A run of the program: whether the variable is unbound and whether the
\* slice operation itself raises.
Inputs == [unbound : BOOLEAN, opRaises : BOOLEAN]

\* The exception evaluating e raises in a run, "ok" when it raises none.
Evaluated(e, input) ==
    CASE Denotes(e) = "f()" -> "ValueError"
      [] Denotes(e) = "var" /\ input.unbound -> "NameError"
      [] OTHER -> "ok"

\* Evaluating expressions left to right until the first one raises: what was
\* evaluated and how it ended.
EvaluateInOrder(exprs, input) ==
    LET raising == {i \in 1..Len(exprs) : Evaluated(exprs[i], input) # "ok"}
        last == IF raising = {} THEN Len(exprs)
                ELSE CHOOSE i \in raising : \A j \in raising : i <= j
    IN [i \in 1..last |-> <<Denotes(exprs[i]), Evaluated(exprs[i], input)>>]

\* Executing the slice statement n: its present children in evaluation order,
\* then the slice operation when none of them raised.
ExecuteStatement(n, input) ==
    LET order == named_children(n.kind)
        children == SelectSeq([i \in 1..Len(order) |-> n.child[order[i]]],
                              IsPresent)
        trace == EvaluateInOrder(children, input)
    IN IF Len(trace) = Len(children)
          /\ \A i \in 1..Len(trace) : trace[i][2] = "ok"
       THEN Append(trace, <<n.kind, IF input.opRaises THEN "TypeError" ELSE "ok">>)
       ELSE trace

\* Executing what an outcome leaves in the tree in place of n.
ExecuteReplacement(outcome, n, input) ==
    IF outcome.form = "self" THEN ExecuteStatement(n, input)
    ELSE EvaluateInOrder(outcome.exprs, input)

\* C3: for a slice assignment or deletion, every replacement a compute step
\* returns (the node itself, or expression-only statements) evaluates the
\* same children in the same order and ends with the same exception as the
\* original statement, in every run of the program.
C3_ReplacementRaisesTheSame ==
    (Ran(AssignKind) \/ Ran(DelKind)) =>
        \A i \in 1..Len(outcomes) :
            outcomes[i].form \in {"self", "stmts"} =>
                \A input \in Inputs :
                    ExecuteReplacement(outcomes[i], node, input)
                        = ExecuteStatement(node, input)

\* C3 witness: an assignment whose value depends on the run and whose lower
\* bound certainly raises was replaced by three statements.
C3_Witness ==
    /\ Ran(AssignKind)
    /\ node.child["source"] = "var"
    /\ LastOutcome.tag = "new_raise"
    /\ Len(LastOutcome.exprs) = 3

\* C4: the factory builds the 2-argument kind exactly when no step is
\* supplied and the 3-argument kind for any supplied step, the None constant
\* included; an omitted start or stop becomes the None constant, so start and
\* stop are never absent.
C4_FactoryKindAndDefaults ==
    node.kind \in {Slice2Kind, Slice3Kind} =>
        /\ (node.kind = Slice2Kind) <=> (supplied["step"] = Absent)
        /\ (node.kind = Slice3Kind) => node.child["step"] = supplied["step"]
        /\ \A name \in {"start", "stop"} :
              /\ node.child[name] # Absent
              /\ node.child[name] =
                    IF supplied[name] = Absent THEN "none" ELSE supplied[name]

\* C4 witness: slice built with no start and the None constant as step.
C4_Witness ==
    /\ node.kind = Slice3Kind
    /\ supplied["step"] = "none"
    /\ supplied["start"] = Absent
    /\ node.child["start"] = "none"

\* C5: for both builtin slice kinds mayRaiseException(category) is the OR of
\* the arguments' answers for that category, and mayHaveSideEffects is
\* mayRaiseException(BaseException).
C5_MayRaiseIsOrOfArguments ==
    /\ query.asked = "mayRaiseException" =>
          (query.answer <=>
              \E name \in DOMAIN node.child :
                  mayRaiseException(node.child[name], query.category))
    /\ query.asked = "mayHaveSideEffects" =>
          (query.answer <=>
              \E name \in DOMAIN node.child :
                  mayRaiseException(node.child[name], "BaseException"))

\* C5 witness: a 3-argument slice of which only the step may raise answered
\* that it may raise.
C5_Witness ==
    /\ node.kind = Slice3Kind
    /\ query.asked = "mayRaiseException"
    /\ query.answer
    /\ ~mayRaiseException(node.child["start"], "BaseException")
    /\ ~mayRaiseException(node.child["stop"], "BaseException")

\* No child of n certainly raises, as stored or as the trace collection
\* returns it; its subject has the default hooks; and, for a builtin slice,
\* not every argument is a compile time constant.
Quiet(n) ==
    /\ \A name \in DOMAIN n.child :
          n.child[name] # Absent =>
              /\ ~willRaiseException(n.child[name], "BaseException")
              /\ ~willRaiseException(Refined(n.child[name]), "BaseException")
    /\ n.kind \in {AssignKind, DelKind, LookupKind} =>
          /\ n.child["expression"] \notin HookSubjects
          /\ Refined(n.child["expression"]) \notin HookSubjects
    /\ n.kind \in {Slice2Kind, Slice3Kind} =>
          \E name \in DOMAIN n.child :
              ~isCompileTimeConstant(Refined(n.child[name]))

RefinedHookArgs(n) ==
    IF n.kind = AssignKind
    THEN <<onExpression(n.child["source"], FALSE),
           onExpression(n.child["lower"], TRUE),
           onExpression(n.child["upper"], TRUE)>>
    ELSE <<onExpression(n.child["lower"], TRUE),
           onExpression(n.child["upper"], TRUE)>>

HookOf(n) == IF n.kind = AssignKind THEN "SetSlice" ELSE "DelSlice"

\* C7: when no child of a slice assignment / deletion certainly raises, the
\* hook of the refined subject is called with the refined value, lower and
\* upper (resp. lower and upper), absent bounds as absent, and its outcome is
\* the outcome of the compute step.
C7_HookGetsRefinedChildren ==
    ((Ran(AssignKind) \/ Ran(DelKind)) /\ FirstRaising(node) = 0) =>
        /\ hookCall = HookCall(HookOf(node),
                               onExpression(node.child["expression"], FALSE),
                               RefinedHookArgs(node))
        /\ LastOutcome = HookOutcome(HookOf(node),
                                     onExpression(node.child["expression"], FALSE),
                                     RefinedHookArgs(node))

C9_NoNoneConstantBound ==
    node.kind \in {AssignKind, DelKind, LookupKind} =>
        /\ node.child["lower"] # "none"
        /\ node.child["upper"] # "none"

\* C9 amended: a slice lookup turns a bound supplied as the None constant into
\* an absent bound, so its bounds are absent or not the None constant; a slice
\* assignment or deletion keeps its bounds as they were supplied.
C9_OnlyLookupNormalizesBounds ==
    /\ node.kind = LookupKind =>
          \A name \in {"lower", "upper"} :
              /\ node.child[name] # "none"
              /\ node.child[name] =
                    IF supplied[name] = "none" THEN Absent ELSE supplied[name]
    /\ node.kind \in {AssignKind, DelKind} =>
          \A name \in {"lower", "upper"} : node.child[name] = supplied[name]

\* C9 witness: a slice lookup built with the None constant as lower bound was
\* computed and has no lower bound.
C9_Witness ==
    /\ Ran(LookupKind)
    /\ supplied["lower"] = "none"
    /\ node.child["lower"] = Absent

\* C10: the expressions a slice assignment / deletion hands to
\* makeStatementOnlyNodesFromExpressions are all present nodes.
C10_OnlyNodesHanded ==
    node.kind \in {AssignKind, DelKind} =>
        \A i \in 1..Len(handed) : handed[i] # Absent

====
